---- MODULE Spec2Model ----
(***************************************************************************)
(* A model of rpm_srv (src/src/main.rs): the hyper request handler that    *)
(* stores uploaded RPM files under <root>/<repo>/rpms/ and rebuilds the    *)
(* repository metadata by running createrepo under a process-wide mutex.   *)
(*                                                                         *)
(* Strings are sequences of one-character strings, so that splitting a     *)
(* request path into components and taking a file name's extension are     *)
(* computed the way std::path computes them.  A filesystem path below the  *)
(* configured root is the sequence of its names: <<repo, rpms, file>>.     *)
(*                                                                         *)
(* Each request is handled on a thread of its own; a thread takes one step  *)
(* per access to the filesystem, the lock or the child process.  A panic   *)
(* unwinds the handler's thread: the request ends at pc "panicked" and the *)
(* handler has set no status.                                              *)
(***************************************************************************)
EXTENDS Integers, Sequences, FiniteSets, TLC

(* ---------------------------- bounds ----------------------------------- *)

\* Number of requests the transport hands to the handler, each on its own thread.
NumReq == 2

\* Number of chunks io::copy moves from a request body to the file.
BodyLen == 2

\* Number of separator-delimited segments of a request path, at most.
MaxSegs == 3

(* ---------------------------- strings ---------------------------------- *)

S_a == <<"a">>
S_b == <<"b">>
S_rpms == <<"r", "p", "m", "s">>
S_rpm == <<"r", "p", "m">>
S_cache == <<"c", "a", "c", "h", "e">>
S_createrepo == <<"c", "r", "e", "a", "t", "e", "r", "e", "p", "o">>
S_update == <<"-", "-", "u", "p", "d", "a", "t", "e">>
S_cachedir == <<"-", "-", "c", "a", "c", "h", "e", "d", "i", "r", "=">>
S_sep == <<"/">>
S_root == <<"/", "r">>

\* Request paths, as the transport hands them over.
P_repo == <<"/", "a">>
P_rpm == <<"/", "a", "/", "p", ".", "r", "p", "m">>
P_rpm2 == <<"/", "a", "/", "q", ".", "r", "p", "m">>
P_tar == <<"/", "a", "/", "p", ".", "t", "a", "r">>
P_upper == <<"/", "a", "/", "p", ".", "R", "P", "M">>
P_noext == <<"/", "a", "/", "p">>
P_hidden == <<"/", "a", "/", ".", "r", "p", "m">>
P_none == <<"/">>
P_three == <<"/", "a", "/", "a", "/", "p", ".", "r", "p", "m">>
P_dots == <<"/", ".", ".", "/", "a", "/", ".", "/", "p", ".", "r", "p", "m">>
P_blocked == <<"/", "b">>
P_cache == <<"/", "c", "a", "c", "h", "e">>
P_cache_tar == <<"/", "c", "a", "c", "h", "e", "/", "p", ".", "t", "a", "r">>

\* The segments request paths are made of: names, with and without an
\* extension, the parent and current directory references and the empty
\* segment of a doubled or trailing separator.
Names ==
    {S_a, S_cache, <<"p", ".", "r", "p", "m">>, <<"p", ".", "t", "a", "r">>,
     <<".", ".">>, <<".">>, <<>>}

\* The text of the request path with the segments segs: "/" alone, or every
\* segment after a separator.
RECURSIVE Slashed(_)
Slashed(segs) ==
    IF segs = <<>> THEN <<>> ELSE S_sep \o Head(segs) \o Slashed(Tail(segs))

UriText(segs) == IF segs = <<>> THEN S_sep ELSE Slashed(segs)

\* hyper::uri::RequestUri: AbsolutePath(String), or another form such as Star.
AbsolutePath(val) == [kind |-> "AbsolutePath", val |-> val]

Star == [kind |-> "Star", val |-> <<>>]

\* Option<T>
None == [some |-> FALSE]

Some(v) == [some |-> TRUE, val |-> v]

(* ------------------------- std::path, modelled ------------------------- *)

\* The pieces of s between separators, empty pieces included.
RECURSIVE Pieces(_, _)
Pieces(s, cur) ==
    IF s = <<>> THEN <<cur>>
    ELSE IF Head(s) = "/" THEN <<cur>> \o Pieces(Tail(s), <<>>)
    ELSE Pieces(Tail(s), Append(cur, Head(s)))

IsNamePiece(piece) == piece # <<>> /\ piece # <<".">>

ToComponent(piece) ==
    IF piece = <<".", ".">> THEN [kind |-> "ParentDir", val |-> piece]
    ELSE [kind |-> "Normal", val |-> piece]

\* Path::components: RootDir for a leading separator, repeated separators and
\* "." pieces normalised away (a leading "." of a relative path is CurDir),
\* ".." as ParentDir, every other piece as Normal.
Components(val) ==
    LET pieces == Pieces(val, <<>>)
        named == SelectSeq(pieces, IsNamePiece)
        rooted == val # <<>> /\ Head(val) = "/"
        lead == IF rooted THEN <<[kind |-> "RootDir", val |-> S_sep]>>
                ELSE IF Head(pieces) = <<".">> THEN <<[kind |-> "CurDir", val |-> <<".">>]>>
                ELSE <<>>
    IN lead \o [i \in 1..Len(named) |-> ToComponent(named[i])]

\* Index of the last "." of a name, 0 when it has none.
RECURSIVE LastDot(_, _)
LastDot(name, i) ==
    IF i = 0 THEN 0
    ELSE IF name[i] = "." THEN i
    ELSE LastDot(name, i - 1)

\* Path::extension of a path whose last component is name: the part after the
\* last ".", None when there is no "." or when the name starts with its only ".".
Extension(name) ==
    LET i == LastDot(name, Len(name))
    IN IF name = <<".", ".">> \/ i <= 1 THEN None
       ELSE Some(SubSeq(name, i + 1, Len(name)))

\* Path::join of a path (a sequence of names below the root) and one name.
Join(path, name) == Append(path, name)

\* The text of a path below root, as to_str gives it: root/name/name...
RECURSIVE PathStr(_)
PathStr(path) ==
    IF path = <<>> THEN S_root
    ELSE PathStr(SubSeq(path, 1, Len(path) - 1)) \o S_sep \o path[Len(path)]

(* --------------------------- RepoRequest ------------------------------- *)

drop_root_only(c) == c.kind # "RootDir"

drop_non_string_comp(c) == c.kind = "Normal"

\* Its panic arm is unreachable: it is applied to the filtered components only.
convert_string_com(c) == c.val

BadRequest == 400

Ok == 200

InternalServerError == 500

MethodNotAllowed == 405

parse_request_lenient(uri) ==
    IF uri.kind = "AbsolutePath"
    THEN LET kept == SelectSeq(Components(uri.val), drop_non_string_comp)
             components == [i \in 1..Len(kept) |-> convert_string_com(kept[i])]
         IN CASE Len(components) = 1 ->
                    [ok |-> TRUE,
                     req |-> [repo_name |-> components[1], file_name |-> None]]
              [] Len(components) >= 2 ->
                    [ok |-> TRUE,
                     req |-> [repo_name |-> components[1],
                              file_name |-> Some(components[2])]]
              [] OTHER ->
                    [ok |-> FALSE,
                     err |-> [code |-> BadRequest, error |-> "Invalid path specified"]]
    ELSE [ok |-> FALSE,
          err |-> [code |-> BadRequest, error |-> "Invalid URI specified"]]

parse_request(uri) ==
    IF uri.kind = "AbsolutePath"
    THEN LET kept == SelectSeq(Components(uri.val), drop_non_string_comp)
             components == [i \in 1..Len(kept) |-> convert_string_com(kept[i])]
         IN CASE Len(components) = 1 ->
                    [ok |-> TRUE,
                     req |-> [repo_name |-> components[1], file_name |-> None]]
              [] Len(components) = 2 ->
                    [ok |-> TRUE,
                     req |-> [repo_name |-> components[1],
                              file_name |-> Some(components[2])]]
              [] OTHER ->
                    [ok |-> FALSE,
                     err |-> [code |-> BadRequest, error |-> "Invalid path specified"]]
    ELSE [ok |-> FALSE,
          err |-> [code |-> BadRequest, error |-> "Invalid URI specified"]]

repo_path(req) == Join(<<>>, req.repo_name)

rpm_path(req) == Join(repo_path(req), S_rpms)

\* The result of file_path: panics when file_name is None (unwrap), when the
\* name has no extension (unwrap) and when the extension is not "rpm".
file_path(req) ==
    IF ~req.file_name.some THEN [panic |-> TRUE, path |-> <<>>]
    ELSE LET name == req.file_name.val
             path == Join(rpm_path(req), name)
             extension == Extension(name)
         IN IF ~extension.some THEN [panic |-> TRUE, path |-> <<>>]
            ELSE IF extension.val # S_rpm THEN [panic |-> TRUE, path |-> <<>>]
            ELSE [panic |-> FALSE, path |-> path]

cache_arg == S_cachedir \o PathStr(Join(<<>>, S_cache))

CommandWithFile(req) ==
    <<S_createrepo, cache_arg, S_update,
      PathStr(IF req.file_name.some THEN Join(repo_path(req), req.file_name.val)
              ELSE repo_path(req))>>

\* The command line of the indexer for a parsed request.
Command(req) == <<S_createrepo, cache_arg, S_update, PathStr(repo_path(req))>>

(* ----------------------------- state ----------------------------------- *)

VARIABLES
    pc,            \* where each request's handler thread stands
    request,       \* the server::Request of each thread: method, uri
    parsed_req,    \* the RepoRequest parse_request gave, once parsed
    status,        \* *resp.status_mut(), Some(code) once the handler has set it
    copied,        \* chunks io::copy has written for a PUT
    child,         \* the createrepo process a POST spawned
    command,       \* the command line a POST spawned, or tried to
    dirs,          \* the directories below the root
    files,         \* the regular files below the root, with their contents
    refresh_lock,  \* RestApiHandler.refresh_lock: holder (0: none) and poison flag
    panicked_at    \* the place where a thread panicked, as the panic message names it

vars == <<pc, request, parsed_req, status, copied, child, command, dirs, files,
          refresh_lock, panicked_at>>

Req == 1..NumReq

Kind(m, u) == [method |-> m, uri |-> u]

\* The requests clients send: a method and a request URI.
Kinds ==
    {Kind("Get", AbsolutePath(P_repo)),
     Kind("Delete", AbsolutePath(P_rpm)),
     Kind("Put", AbsolutePath(P_rpm)), Kind("Put", AbsolutePath(P_tar)),
     Kind("Put", AbsolutePath(P_noext)), Kind("Put", AbsolutePath(P_repo)),
     Kind("Put", AbsolutePath(P_none)), Kind("Put", AbsolutePath(P_three)),
     Kind("Put", Star),
     Kind("Post", AbsolutePath(P_repo)), Kind("Post", AbsolutePath(P_cache_tar)),
     Kind("Post", AbsolutePath(P_blocked)), Kind("Post", AbsolutePath(P_none)),
     Kind("Post", Star)}

NoRequest == [method |-> "none", uri |-> Star]

\* The body a client sends with request r: BodyLen chunks tagged r.
Body(r) == [i \in 1..BodyLen |-> r]

\* The path the ensure_dir_exists call at pc[r] is about.
DirArg(r) ==
    IF pc[r] \in {"repo_exists", "repo_create"} THEN repo_path(parsed_req[r].val)
    ELSE rpm_path(parsed_req[r].val)

exists(path) == path \in dirs \/ path \in DOMAIN files

is_dir(path) == path \in dirs

\* A request has ended: its handler returned, or panicked.
Ended(r) == pc[r] \in {"done", "panicked"}

\* The root directory holds one entry that the server did not create: a regular
\* file named b, in the place of a repository directory.
Init ==
    /\ pc = [r \in Req |-> "new"]
    /\ request = [r \in Req |-> NoRequest]
    /\ parsed_req = [r \in Req |-> None]
    /\ status = [r \in Req |-> None]
    /\ copied = [r \in Req |-> 0]
    /\ child = [r \in Req |-> "none"]
    /\ command = [r \in Req |-> <<>>]
    /\ dirs = {}
    /\ files = (<<S_b>> :> <<>>)
    /\ refresh_lock = [holder |-> 0, poisoned |-> FALSE]
    /\ panicked_at = [r \in Req |-> "nowhere"]

\* The step of thread r that is being taken records where it panics, if it does.
Unwind(r) ==
    panicked_at' = [panicked_at EXCEPT ![r] =
                       IF pc'[r] = "panicked" THEN pc[r] ELSE @]

(* ------------------------- filesystem calls ---------------------------- *)

Parent(path) == SubSeq(path, 1, Len(path) - 1)

\* The plain mkdir: a directory that is already there is an error.
create_dir_exclusive(path, ds) ==
    IF path \in ds \/ path \in DOMAIN files THEN [ok |-> FALSE, dirs |-> ds]
    ELSE [ok |-> TRUE, dirs |-> ds \cup {path}]

\* DirBuilder::new().recursive(true).create(path) on the directories ds:
\* a directory that is already there is no error, a regular file in the way is.
RECURSIVE create_dir_all(_, _)
create_dir_all(path, ds) ==
    IF path = <<>> \/ path \in ds THEN [ok |-> TRUE, dirs |-> ds]
    ELSE IF path \in DOMAIN files THEN [ok |-> FALSE, dirs |-> ds]
    ELSE LET up == create_dir_all(Parent(path), ds)
         IN IF up.ok THEN [ok |-> TRUE, dirs |-> up.dirs \cup {path}]
            ELSE up

\* The contents of a file after chunk k of body is written at offset k.
WriteAt(content, k, byte) ==
    [i \in 1..(IF Len(content) > k THEN Len(content) ELSE k) |->
        IF i = k THEN byte
        ELSE IF i <= Len(content) THEN content[i]
        ELSE 0]

(* ------------------------------ handle --------------------------------- *)

\* The transport hands request r to the handler, in order of arrival.
Receive(r, k) ==
    /\ pc[r] = "new"
    /\ IF r = 1 THEN TRUE ELSE pc[r - 1] # "new"
    /\ request' = [request EXCEPT ![r] = k]
    /\ pc' = [pc EXCEPT ![r] = "handle"]
    /\ UNCHANGED <<parsed_req, status, copied, child, command, dirs, files,
                   refresh_lock>>
    /\ Unwind(r)

HandleOtherOk(r) ==
    /\ pc[r] = "handle"
    /\ request[r].method \notin {"Put", "Post"}
    /\ status' = [status EXCEPT ![r] = Some(Ok)]
    /\ pc' = [pc EXCEPT ![r] = "done"]
    /\ UNCHANGED <<request, parsed_req, copied, child, command, dirs, files,
                   refresh_lock>>
    /\ Unwind(r)

HandleOtherParsing(r) ==
    /\ pc[r] = "handle"
    /\ request[r].method \notin {"Put", "Post"}
    /\ LET res == parse_request(request[r].uri)
       IN /\ status' = [status EXCEPT ![r] = Some(MethodNotAllowed)]
          /\ parsed_req' = [parsed_req EXCEPT ![r] = IF res.ok THEN Some(res.req) ELSE None]
          /\ dirs' = IF res.ok THEN create_dir_all(repo_path(res.req), dirs).dirs ELSE dirs
    /\ pc' = [pc EXCEPT ![r] = "done"]
    /\ UNCHANGED <<request, copied, child, command, files, refresh_lock>>
    /\ Unwind(r)

\* handle, the arm for every method but Put and Post.
HandleOther(r) ==
    /\ pc[r] = "handle"
    /\ request[r].method \notin {"Put", "Post"}
    /\ status' = [status EXCEPT ![r] = Some(MethodNotAllowed)]
    /\ pc' = [pc EXCEPT ![r] = "done"]
    /\ UNCHANGED <<request, parsed_req, copied, child, command, dirs, files,
                   refresh_lock>>
    /\ Unwind(r)

\* handle's Put and Post arms enter process_put_req and process_post_req, which
\* both start with parse_request(&req.uri).unwrap(): an Err panics.
ParseUnwrap(r) ==
    /\ pc[r] = "handle"
    /\ request[r].method \in {"Put", "Post"}
    /\ LET res == parse_request(request[r].uri)
       IN IF res.ok
          THEN /\ parsed_req' = [parsed_req EXCEPT ![r] = Some(res.req)]
               /\ pc' = [pc EXCEPT ![r] = "repo_exists"]
          ELSE /\ pc' = [pc EXCEPT ![r] = "panicked"]
               /\ UNCHANGED parsed_req
    /\ UNCHANGED <<request, status, copied, child, command, dirs, files,
                   refresh_lock>>
    /\ Unwind(r)

(* ------------------------- ensure_repo_exists -------------------------- *)

AfterEnsureLock(r) == "lock"

\* Where a request goes once ensure_repo_exists has returned.
AfterEnsure(r) == IF request[r].method = "Put" THEN "file_create" ELSE "lock"

AfterIsDirSkipRpms(r, ds) ==
    IF DirArg(r) \notin ds THEN "panicked" ELSE AfterEnsure(r)

\* Where the thread stands after the ensure_dir_exists call at pc[r] has checked
\* is_dir: a path that is no directory panics.  Directories are never removed
\* or replaced, so the check sees what the step before it left.
AfterIsDir(r, ds) ==
    IF DirArg(r) \notin ds THEN "panicked"
    ELSE IF pc[r] \in {"repo_exists", "repo_create"} THEN "rpms_exists"
    ELSE AfterEnsure(r)

\* ensure_dir_exists: if !path.exists(), and for a path that is there the
\* is_dir check.
DirExists(r) ==
    /\ pc[r] \in {"repo_exists", "rpms_exists"}
    /\ pc' = [pc EXCEPT ![r] =
                IF exists(DirArg(r)) THEN AfterIsDir(r, dirs)
                ELSE IF pc[r] = "repo_exists" THEN "repo_create"
                ELSE "rpms_create"]
    /\ UNCHANGED <<request, parsed_req, status, copied, child, command, dirs,
                   files, refresh_lock>>
    /\ Unwind(r)

\* ensure_dir_exists: DirBuilder...create(path).unwrap() and the is_dir check;
\* io_ok is whether the operating system lets the directory be made
\* (permissions, space), which matters only when it is not there yet: the
\* recursive create returns Ok for every path that is a directory.
DirCreate(r, io_ok) ==
    /\ pc[r] \in {"repo_create", "rpms_create"}
    /\ LET res == create_dir_all(DirArg(r), dirs)
       IN IF (io_ok \/ DirArg(r) \in dirs) /\ res.ok
          THEN /\ dirs' = res.dirs
               /\ pc' = [pc EXCEPT ![r] = AfterIsDir(r, res.dirs)]
          ELSE /\ pc' = [pc EXCEPT ![r] = "panicked"]
               /\ UNCHANGED dirs
    /\ UNCHANGED <<request, parsed_req, status, copied, child, command, files,
                   refresh_lock>>
    /\ Unwind(r)

(* --------------------------- process_put_req --------------------------- *)

PutFileCreateUnchecked(r, io_ok) ==
    /\ pc[r] = "file_create"
    /\ LET req == parsed_req[r].val
           fp == file_path(req)
       IN IF req.file_name.some /\ io_ok
          THEN /\ files' = (Join(rpm_path(req), req.file_name.val) :> <<>>) @@ files
               /\ pc' = [pc EXCEPT ![r] = IF fp.panic THEN "panicked" ELSE "copy"]
          ELSE /\ pc' = [pc EXCEPT ![r] = "panicked"]
               /\ UNCHANGED files
    /\ UNCHANGED <<request, parsed_req, status, copied, child, command, dirs,
                   refresh_lock>>
    /\ Unwind(r)

\* file_path, then fs::File::create(&file_path).unwrap(): the file is made, or
\* truncated when it is there.
PutFileCreate(r, io_ok) ==
    /\ pc[r] = "file_create"
    /\ LET fp == file_path(parsed_req[r].val)
       IN IF ~fp.panic /\ io_ok /\ fp.path \notin dirs /\ is_dir(Parent(fp.path))
          THEN /\ files' = (fp.path :> <<>>) @@ files
               /\ pc' = [pc EXCEPT ![r] = "copy"]
          ELSE /\ pc' = [pc EXCEPT ![r] = "panicked"]
               /\ UNCHANGED files
    /\ UNCHANGED <<request, parsed_req, status, copied, child, command, dirs,
                   refresh_lock>>
    /\ Unwind(r)

\* io::copy(&mut req, &mut file).unwrap(), one chunk: read from the request and
\* written at the file's own offset; a failed read or write panics.
PutCopy(r, io_ok) ==
    /\ pc[r] = "copy"
    /\ copied[r] < BodyLen
    /\ LET path == file_path(parsed_req[r].val).path
           k == copied[r] + 1
       IN IF io_ok
          THEN /\ files' = [files EXCEPT ![path] = WriteAt(files[path], k, Body(r)[k])]
               /\ copied' = [copied EXCEPT ![r] = k]
               /\ pc' = pc
          ELSE /\ pc' = [pc EXCEPT ![r] = "panicked"]
               /\ UNCHANGED <<files, copied>>
    /\ UNCHANGED <<request, parsed_req, status, child, command, dirs, refresh_lock>>
    /\ Unwind(r)

PutReturnEarly(r) ==
    /\ pc[r] = "copy"
    /\ status' = [status EXCEPT ![r] = Some(Ok)]
    /\ pc' = [pc EXCEPT ![r] = "done"]
    /\ UNCHANGED <<request, parsed_req, copied, child, command, dirs, files,
                   refresh_lock>>
    /\ Unwind(r)

\* io::copy returns at the end of the body, process_put_req returns and handle
\* sets the status.
PutReturn(r) ==
    /\ pc[r] = "copy"
    /\ copied[r] = BodyLen
    /\ status' = [status EXCEPT ![r] = Some(Ok)]
    /\ pc' = [pc EXCEPT ![r] = "done"]
    /\ UNCHANGED <<request, parsed_req, copied, child, command, dirs, files,
                   refresh_lock>>
    /\ Unwind(r)

(* -------------------------- process_post_req --------------------------- *)

LockAvailableAlways(r) == TRUE

\* Mutex::lock blocks while another thread holds the guard.
LockAvailable(r) == refresh_lock.holder = 0

\* Dropping the MutexGuard: the mutex is poisoned when the thread is panicking.
Unlocked(panicking) ==
    [holder |-> 0, poisoned |-> refresh_lock.poisoned \/ panicking]

ExitStatusCodeOk(exit) == Ok

\* The status process_post_req returns for a child that exited.
ExitStatusCode(exit) == IF exit = "exit0" THEN Ok ELSE InternalServerError

\* self.refresh_lock.lock().unwrap(): a poisoned mutex gives Err, and the
\* guard inside the error is dropped by the panic.
PostLock(r) ==
    /\ pc[r] = "lock"
    /\ LockAvailable(r)
    /\ IF refresh_lock.poisoned
       THEN /\ pc' = [pc EXCEPT ![r] = "panicked"]
            /\ UNCHANGED refresh_lock
       ELSE /\ refresh_lock' = [refresh_lock EXCEPT !.holder = r]
            /\ pc' = [pc EXCEPT ![r] = "spawn"]
    /\ UNCHANGED <<request, parsed_req, status, copied, child, command, dirs, files>>
    /\ Unwind(r)

PostSpawnMakingCache(r, spawn_ok) ==
    /\ pc[r] = "spawn"
    /\ command' = [command EXCEPT ![r] = Command(parsed_req[r].val)]
    /\ dirs' = dirs \cup {Join(<<>>, S_cache)}
    /\ IF spawn_ok
       THEN /\ child' = [child EXCEPT ![r] = "running"]
            /\ pc' = [pc EXCEPT ![r] = "wait"]
            /\ UNCHANGED <<status, refresh_lock>>
       ELSE /\ child' = [child EXCEPT ![r] = "spawn_failed"]
            /\ status' = [status EXCEPT ![r] = Some(InternalServerError)]
            /\ refresh_lock' = Unlocked(FALSE)
            /\ pc' = [pc EXCEPT ![r] = "done"]
    /\ UNCHANGED <<request, parsed_req, copied, files>>
    /\ Unwind(r)

\* process::Command::new("createrepo")...spawn(); the Err arm returns 500 and
\* the guard is dropped on return.
PostSpawn(r, spawn_ok) ==
    /\ pc[r] = "spawn"
    /\ command' = [command EXCEPT ![r] = Command(parsed_req[r].val)]
    /\ IF spawn_ok
       THEN /\ child' = [child EXCEPT ![r] = "running"]
            /\ pc' = [pc EXCEPT ![r] = "wait"]
            /\ UNCHANGED <<status, refresh_lock>>
       ELSE /\ child' = [child EXCEPT ![r] = "spawn_failed"]
            /\ status' = [status EXCEPT ![r] = Some(InternalServerError)]
            /\ refresh_lock' = Unlocked(FALSE)
            /\ pc' = [pc EXCEPT ![r] = "done"]
    /\ UNCHANGED <<request, parsed_req, copied, dirs, files>>
    /\ Unwind(r)

\* child.wait().unwrap() returns when the child has ended, with exit code 0 or
\* not; the status is mapped, the guard dropped and handle sets the status.
PostWait(r, exit) ==
    /\ pc[r] = "wait"
    /\ child[r] = "running"
    /\ child' = [child EXCEPT ![r] = exit]
    /\ status' = [status EXCEPT ![r] = Some(ExitStatusCode(exit))]
    /\ refresh_lock' = Unlocked(FALSE)
    /\ pc' = [pc EXCEPT ![r] = "done"]
    /\ UNCHANGED <<request, parsed_req, copied, command, dirs, files>>
    /\ Unwind(r)

\* A child that was not waited for ends on its own.
OrphanExit(r, exit) ==
    /\ pc[r] = "panicked"
    /\ child[r] = "running"
    /\ child' = [child EXCEPT ![r] = exit]
    /\ UNCHANGED <<pc, request, parsed_req, status, copied, command, dirs, files,
                   refresh_lock, panicked_at>>

\* child.wait() gives Err (the operating system refuses the wait): unwrap
\* panics while the guard is held, and the unwinding drops the guard.  The
\* child is left running.
PostWaitErr(r) ==
    /\ pc[r] = "wait"
    /\ refresh_lock' = Unlocked(TRUE)
    /\ pc' = [pc EXCEPT ![r] = "panicked"]
    /\ UNCHANGED <<request, parsed_req, status, copied, child, command, dirs, files>>
    /\ Unwind(r)

(* --------------------------- specification ----------------------------- *)

Next ==
    \/ \E r \in Req, k \in Kinds : Receive(r, k)
    \/ \E r \in Req : HandleOther(r)
    \/ \E r \in Req : ParseUnwrap(r)
    \/ \E r \in Req : DirExists(r)
    \/ \E r \in Req, io_ok \in BOOLEAN : DirCreate(r, io_ok)
    \/ \E r \in Req, io_ok \in BOOLEAN : PutFileCreate(r, io_ok)
    \/ \E r \in Req, io_ok \in BOOLEAN : PutCopy(r, io_ok)
    \/ \E r \in Req : PutReturn(r)
    \/ \E r \in Req : PostLock(r)
    \/ \E r \in Req, spawn_ok \in BOOLEAN : PostSpawn(r, spawn_ok)
    \/ \E r \in Req, exit \in {"exit0", "exit1"} : PostWait(r, exit)
    \/ \E r \in Req, exit \in {"exit0", "exit1"} : OrphanExit(r, exit)
    \/ \E r \in Req : PostWaitErr(r)

Spec == Init /\ [][Next]_vars

(* ------------------------ uploads and refreshes ------------------------ *)

\* Uploads of two files of one repository, and refreshes of that repository
\* and of another.
UploadKinds ==
    {Kind("Put", AbsolutePath(P_rpm)), Kind("Put", AbsolutePath(P_rpm2)),
     Kind("Post", AbsolutePath(P_repo)), Kind("Post", AbsolutePath(P_cache_tar))}

UploadNext ==
    \/ \E r \in Req, k \in UploadKinds : Receive(r, k)
    \/ \E r \in Req : ParseUnwrap(r)
    \/ \E r \in Req : DirExists(r)
    \/ \E r \in Req, io_ok \in BOOLEAN : DirCreate(r, io_ok)
    \/ \E r \in Req, io_ok \in BOOLEAN : PutFileCreate(r, io_ok)
    \/ \E r \in Req, io_ok \in BOOLEAN : PutCopy(r, io_ok)
    \/ \E r \in Req : PutReturn(r)
    \/ \E r \in Req : PostLock(r)
    \/ \E r \in Req, spawn_ok \in BOOLEAN : PostSpawn(r, spawn_ok)
    \/ \E r \in Req, exit \in {"exit0", "exit1"} : PostWait(r, exit)
    \/ \E r \in Req, exit \in {"exit0", "exit1"} : OrphanExit(r, exit)
    \/ \E r \in Req : PostWaitErr(r)

UploadSpec == Init /\ [][UploadNext]_vars

(* ------------------- one request, every request path ------------------- *)

\* The request URIs of every path of at most MaxSegs segments, and one URI
\* that is no path.
SoloUris ==
    {Star} \cup
    {AbsolutePath(UriText(segs)) :
        segs \in UNION {[1..n -> Names] : n \in 0..MaxSegs}}

\* The server has handed its first request, a PUT or a POST of any of the
\* URIs, to the handler; no other request arrives.
SoloInit ==
    /\ pc = [r \in Req |-> IF r = 1 THEN "handle" ELSE "new"]
    /\ request \in {[r \in Req |-> IF r = 1 THEN Kind(m, u) ELSE NoRequest] :
                        m \in {"Put", "Post"}, u \in SoloUris}
    /\ parsed_req = [r \in Req |-> None]
    /\ status = [r \in Req |-> None]
    /\ copied = [r \in Req |-> 0]
    /\ child = [r \in Req |-> "none"]
    /\ command = [r \in Req |-> <<>>]
    /\ dirs = {}
    /\ files = (<<S_b>> :> <<>>)
    /\ refresh_lock = [holder |-> 0, poisoned |-> FALSE]
    /\ panicked_at = [r \in Req |-> "nowhere"]

SoloNext ==
    \/ ParseUnwrap(1)
    \/ DirExists(1)
    \/ \E io_ok \in BOOLEAN : DirCreate(1, io_ok)
    \/ \E io_ok \in BOOLEAN : PutFileCreate(1, io_ok)
    \/ \E io_ok \in BOOLEAN : PutCopy(1, io_ok)
    \/ PutReturn(1)
    \/ PostLock(1)
    \/ \E spawn_ok \in BOOLEAN : PostSpawn(1, spawn_ok)
    \/ \E exit \in {"exit0", "exit1"} : PostWait(1, exit)
    \/ \E exit \in {"exit0", "exit1"} : OrphanExit(1, exit)
    \/ PostWaitErr(1)

SoloSpec == SoloInit /\ [][SoloNext]_vars

(* ------------------------------ claims --------------------------------- *)

IsPost(r) == request[r].method = "Post"

IsPut(r) == request[r].method = "Put"

ValidPath(r) == parse_request(request[r].uri).ok

\* The requests whose indexer process is in flight: spawned and not yet ended.
InFlight == {r \in Req : child[r] = "running"}

\* The requests that have invoked the indexer (spawn was called for them).
Invoked == {r \in Req : command[r] # <<>>}

\* The thread of r panicked in ensure_repo_exists: the filesystem refused a
\* directory, or a regular file stands in its place.
FailedEnsure(r) ==
    panicked_at[r] \in {"repo_exists", "repo_create", "rpms_exists", "rpms_create"}

\* What the handler of r has created or changed outside its own thread.
SideEffects == <<dirs, files, refresh_lock, child, command>>

\* C1: in every reachable state at most one createrepo process is in flight,
\* whichever repositories the concurrent POSTs name.
C1_AtMostOneIndexerInFlight == Cardinality(InFlight) <= 1

\* C1 witness: an indexer runs for one repository while a POST for another
\* repository waits at the lock.
C1_Witness ==
    \E r \in Req, q \in Req :
        /\ child[r] = "running"
        /\ pc[q] = "lock"
        /\ parsed_req[r].val.repo_name # parsed_req[q].val.repo_name

\* C2: once N POSTs with valid paths have all ended there have been exactly N
\* indexer invocations, one by each of them, and a POST that returned a status
\* has invoked the indexer itself.  Stated for the POSTs whose repository
\* directories were there or could be made.
C2_EveryPostInvokes ==
    /\ \A r \in Req : IsPost(r) /\ status[r].some => r \in Invoked
    /\ (\A r \in Req : Ended(r)) =>
         Invoked = {r \in Req : IsPost(r) /\ ValidPath(r) /\ ~FailedEnsure(r)}

\* C3: the status a POST returns is that of its own invocation: 200 for exit
\* code zero, 500 for a non-zero exit and for a failed spawn.
C3_PostStatusIsOwnOutcome ==
    \A r \in Req :
        IsPost(r) /\ pc[r] = "done" =>
            /\ child[r] \in {"exit0", "exit1", "spawn_failed"}
            /\ status[r] = Some(IF child[r] = "exit0" THEN Ok ELSE InternalServerError)

\* C3 witness: two POSTs have returned, one with 200 and one with 500.
C3_Witness ==
    \E r \in Req, q \in Req :
        /\ IsPost(r) /\ pc[r] = "done" /\ child[r] = "exit0"
        /\ IsPost(q) /\ pc[q] = "done" /\ child[q] = "exit1"
        /\ status[r] = Some(Ok) /\ status[q] = Some(InternalServerError)

\* C4: after a POST has ended in any way, a failed wait for the child included,
\* the refresh lock is not held by it and is usable by a later POST.
C4_LockUsableAfterPost ==
    \A r \in Req :
        IsPost(r) /\ Ended(r) =>
            refresh_lock.holder # r /\ ~refresh_lock.poisoned

\* C5: a POST with a valid path runs its invocation and returns a status; it
\* never ends without one.  Stated for the POSTs whose repository directories
\* were there or could be made.
C5_ValidPostReturnsStatus ==
    \A r \in Req :
        IsPost(r) /\ ValidPath(r) /\ Ended(r) /\ ~FailedEnsure(r) =>
            r \in Invoked /\ status[r].some

C7_DispatchNeverPanics ==
    \A r \in Req : Ended(r) => pc[r] = "done" /\ status[r].some

\* The file name of the parsed request of r has an extension other than "rpm",
\* or none.
BadExtension(r) ==
    /\ parsed_req[r].some
    /\ parsed_req[r].val.file_name.some
    /\ Extension(parsed_req[r].val.file_name.val) # Some(S_rpm)

\* C8: a PUT whose file name has another extension than "rpm", or none, is
\* answered with 400 and no file of that name is written under rpms.  Stated
\* for the PUTs whose repository directories were there or could be made.
C8_BadExtensionIs400 ==
    \A r \in Req :
        IsPut(r) /\ BadExtension(r) /\ Ended(r) /\ ~FailedEnsure(r) =>
            /\ status[r] = Some(BadRequest)
            /\ Join(rpm_path(parsed_req[r].val), parsed_req[r].val.file_name.val)
                   \notin DOMAIN files

\* C9: a PUT whose path fails to parse is answered with the rejection's code,
\* 400, and changes nothing in the filesystem.
C9_ParseFailureIs400 ==
    [][\A r \in Req :
          IsPut(r) /\ ~ValidPath(r) /\ pc[r] = "handle" /\ pc'[r] # "handle" =>
              /\ status'[r] = Some(parse_request(request[r].uri).err.code)
              /\ UNCHANGED <<dirs, files>>]_vars

\* C10: the step that handles a method other than GET, PUT and POST sets status
\* 405 and leaves everything else as it was: no directory or file is made, the
\* refresh lock is not taken, no subprocess is spawned.
C10_OtherMethodIs405 ==
    [][\A r \in Req :
          /\ request[r].method \notin {"Get", "Put", "Post", "none"}
          /\ pc[r] = "handle" /\ pc'[r] # "handle"
          => /\ pc'[r] = "done"
             /\ status'[r] = Some(MethodNotAllowed)
             /\ parsed_req'[r] = None
             /\ UNCHANGED SideEffects]_vars

\* C10 witness: a DELETE has been answered with 405 while an indexer is running.
C10_Witness ==
    \E r \in Req, q \in Req :
        /\ request[r].method = "Delete" /\ pc[r] = "done"
        /\ status[r] = Some(MethodNotAllowed)
        /\ child[q] = "running"

\* The upload target of a PUT whose file name passed file_path.
Target(r) == file_path(parsed_req[r].val).path

\* The PUT of r has opened its target: File::create has returned for it.
Opened(r) ==
    IsPut(r) /\ (pc[r] = "copy" \/ panicked_at[r] = "copy"
                   \/ (pc[r] = "done" /\ status[r] = Some(Ok)))

\* The step in which the PUT of r is answered with 200.
Answers200(r) == IsPut(r) /\ ~status[r].some /\ status'[r] = Some(Ok)

\* C11 as stated: when a PUT is answered with 200, its target file is there
\* and holds the whole request body, in every execution.
C11_Put200FileHoldsBody ==
    [][\A r \in Req :
          Answers200(r) =>
              /\ Target(r) \in DOMAIN files'
              /\ files'[Target(r)] = Body(r)]_vars

\* C11 amended: a PUT answered with 200 has written every chunk of its body
\* without a failure and its target file is there; the file holds exactly the
\* body when no other PUT has opened the same target.
C11_Put200WroteWholeBody ==
    [][\A r \in Req :
          Answers200(r) =>
              /\ copied[r] = BodyLen
              /\ pc'[r] = "done"
              /\ Target(r) \in DOMAIN files'
              /\ (\A q \in Req \ {r} : Opened(q) => Target(q) # Target(r))
                     => files'[Target(r)] = Body(r)]_vars

\* C11 witness: a PUT has been answered with 200, alone on its target, which
\* holds its body.
C11_Witness ==
    \E r \in Req :
        /\ IsPut(r) /\ pc[r] = "done" /\ status[r] = Some(Ok)
        /\ \A q \in Req \ {r} : Opened(q) => Target(q) # Target(r)
        /\ files[Target(r)] = Body(r)

\* ensure_repo_exists has returned in the thread of r.
PastEnsure(r) ==
    /\ parsed_req[r].some
    /\ pc[r] \notin {"repo_exists", "repo_create", "rpms_exists", "rpms_create"}
    /\ ~FailedEnsure(r)

\* The files that uploads have created: all but the one the root started with.
Uploaded == DOMAIN files \ {<<S_b>>}

\* C12: in every reachable state, a request that is past ensure_repo_exists
\* (about to create its upload file, copying, waiting for the lock, spawning
\* or later) has both <root>/<repo>/ and <root>/<repo>/rpms/; so has every
\* request that invoked the indexer, and every upload file lies in an rpms
\* directory of a repository directory.
C12_DirsBeforeUse ==
    /\ \A r \in Req :
          PastEnsure(r) \/ r \in Invoked \/ Opened(r) =>
              /\ repo_path(parsed_req[r].val) \in dirs
              /\ rpm_path(parsed_req[r].val) \in dirs
    /\ \A f \in Uploaded :
          Parent(f) \in dirs /\ Parent(Parent(f)) \in dirs

\* C12 witness: for one repository that was not there at the start, an upload
\* file has been created and an indexer has been spawned.
C12_Witness ==
    \E r \in Req, q \in Req :
        /\ Opened(r) /\ Target(r) \in Uploaded
        /\ q \in Invoked
        /\ parsed_req[q].val.repo_name = parsed_req[r].val.repo_name

\* The segment of text that starts after the separator at position i.
SegmentAfter(text, i) ==
    LET ends == {j \in (i + 1)..(Len(text) + 1) :
                    j = Len(text) + 1 \/ text[j] = "/"}
        stop == CHOOSE j \in ends : \A k \in ends : j <= k
    IN SubSeq(text, i + 1, stop - 1)

\* The plain names among the segments of text from position i on, in order:
\* every segment but the empty one, "." and "..".
RECURSIVE PlainSegments(_, _)
PlainSegments(text, i) ==
    IF i > Len(text) THEN <<>>
    ELSE IF text[i] # "/" THEN PlainSegments(text, i + 1)
    ELSE LET seg == SegmentAfter(text, i)
         IN (IF seg \in {<<>>, <<".">>, <<".", ".">>} THEN <<>> ELSE <<seg>>)
                \o PlainSegments(text, i + 1)

\* The plain names of a request URI; a URI that is no path has none.
PlainOf(uri) ==
    IF uri.kind = "AbsolutePath" THEN PlainSegments(uri.val, 1) ELSE <<>>

\* C13: for every request URI parse_request returns a value, by the count of
\* plain names left after the root marker, "." and ".." are discarded: one
\* name gives repo_name with file_name None, two give repo_name and
\* Some(file_name) in order, any other count gives the BadRequest rejection;
\* and that value is what the handler goes on with.
C13_SegmentCountRule ==
    \A r \in Req :
        request[r] # NoRequest =>
            LET res == parse_request(request[r].uri)
                plain == PlainOf(request[r].uri)
            IN /\ Len(plain) = 1 =>
                      /\ res.ok
                      /\ res.req = [repo_name |-> plain[1], file_name |-> None]
               /\ Len(plain) = 2 =>
                      /\ res.ok
                      /\ res.req = [repo_name |-> plain[1],
                                    file_name |-> Some(plain[2])]
               /\ Len(plain) \notin {1, 2} =>
                      /\ ~res.ok
                      /\ res.err.code = BadRequest
               /\ pc[r] \notin {"new", "handle"} /\ (IsPut(r) \/ IsPost(r)) =>
                      parsed_req[r] = IF res.ok THEN Some(res.req) ELSE None

\* C13 witness: the path /../a/p.rpm has been parsed into repository a and
\* file p.rpm.
C13_Witness ==
    \E r \in Req :
        /\ request[r].uri = AbsolutePath(UriText(<<<<".", ".">>, S_a, <<"p", ".", "r", "p", "m">>>>))
        /\ pc[r] \notin {"new", "handle"}
        /\ parsed_req[r] = Some([repo_name |-> S_a,
                                 file_name |-> Some(<<"p", ".", "r", "p", "m">>)])

\* A single plain segment: not empty, not "." or "..", with no separator in it.
PlainName(n) ==
    /\ n \notin {<<>>, <<".">>, <<".", ".">>}
    /\ \A i \in 1..Len(n) : n[i] # "/"

\* C14: whatever the request path, every file an upload has created is
\* <root>/<repo_name>/rpms/<file_name> with repo_name and file_name single
\* plain segments, and the target of a PUT that opened its file is made of the
\* two plain names of its path, so that no file is created outside an rpms
\* directory below the root.
C14_UploadsStayInRpms ==
    /\ \A f \in Uploaded :
          /\ Len(f) = 3
          /\ PlainName(f[1]) /\ f[2] = S_rpms /\ PlainName(f[3])
    /\ \A r \in Req :
          Opened(r) =>
              LET plain == PlainOf(request[r].uri)
              IN /\ Len(plain) = 2
                 /\ Target(r) = <<plain[1], S_rpms, plain[2]>>
                 /\ PathStr(Target(r)) =
                        S_root \o S_sep \o plain[1] \o S_sep \o S_rpms \o S_sep \o plain[2]

\* C14 witness: the PUT of /../a/p.rpm has created its file, a/rpms/p.rpm
\* below the root.
C14_Witness ==
    \E r \in Req :
        /\ IsPut(r)
        /\ request[r].uri = AbsolutePath(UriText(<<<<".", ".">>, S_a, <<"p", ".", "r", "p", "m">>>>))
        /\ <<S_a, S_rpms, <<"p", ".", "r", "p", "m">>>> \in Uploaded

\* The thread of r found its directory missing and stands before the create
\* call, and the directory has been made by another request since.
Overtaken(r) ==
    /\ pc[r] \in {"repo_create", "rpms_create"}
    /\ DirArg(r) \in dirs

\* C15: the create call of a request whose directory was made by another
\* request after its exists check does not fail: the thread goes on, the
\* directory is still there, and when the thread leaves ensure_repo_exists
\* both <root>/<repo>/ and <root>/<repo>/rpms/ exist.
C15_RacingEnsureIsSafe ==
    [][\A r \in Req :
          Overtaken(r) /\ pc'[r] # pc[r] =>
              /\ pc'[r] # "panicked"
              /\ DirArg(r) \in dirs'
              /\ pc'[r] \in {"file_create", "lock"} =>
                     /\ repo_path(parsed_req[r].val) \in dirs'
                     /\ rpm_path(parsed_req[r].val) \in dirs']_vars

\* C15 witness: two requests for one repository that was not there; one
\* stands before its create call for a directory that the other, now past
\* ensure_repo_exists, has made in the meantime.
C15_Witness ==
    \E r \in Req, q \in Req :
        /\ q # r
        /\ Overtaken(r)
        /\ PastEnsure(q)
        /\ parsed_req[q].val.repo_name = parsed_req[r].val.repo_name

\* The POST of r was answered after its indexer exited non-zero.
FailedPost(r) == IsPost(r) /\ pc[r] = "done" /\ child[r] = "exit1"

\* No request but r has been handed to the handler.
Alone(r) == \A q \in Req \ {r} : pc[q] = "new"

\* C16 as stated: after a POST whose indexer exited non-zero, and with no
\* other request received, the status is 500 and the directories and files
\* below the root are those of before the POST, also for a repository that
\* was not there.
C16_FailedPostLeavesTreeUnchanged ==
    \A r \in Req :
        FailedPost(r) /\ Alone(r) =>
            /\ status[r] = Some(InternalServerError)
            /\ dirs = {}
            /\ files = (<<S_b>> :> <<>>)

\* C16 amended: no step of a POST creates or changes a file; the only
\* directories a POST creates are <root>/<repo>/ and <root>/<repo>/rpms/ of
\* its own repository, in ensure_repo_exists; from the lock on (lock, spawn,
\* wait) it leaves the directories as they are; and a non-zero exit of its
\* indexer is answered with 500.
C16_FailedPostCreatesOnlyRepoDirs ==
    [][\A r \in Req :
          IsPost(r) /\ pc'[r] # pc[r] =>
              /\ files' = files
              /\ dirs' # dirs =>
                     /\ pc[r] \in {"repo_create", "rpms_create"}
                     /\ dirs' \ dirs \subseteq {repo_path(parsed_req[r].val),
                                                rpm_path(parsed_req[r].val)}
              /\ child'[r] = "exit1" /\ pc[r] = "wait" =>
                     /\ pc'[r] = "done"
                     /\ status'[r] = Some(InternalServerError)]_vars

\* C16 witness: the only request received is a POST for a repository that was
\* not there; its indexer exited non-zero, it was answered with 500, and the
\* two directories of the repository have been created.
C16_Witness ==
    \E r \in Req :
        /\ FailedPost(r) /\ Alone(r)
        /\ status[r] = Some(InternalServerError)
        /\ dirs = {repo_path(parsed_req[r].val), rpm_path(parsed_req[r].val)}
        /\ files = (<<S_b>> :> <<>>)

\* The indexer's command line for the repository named repo: createrepo
\* --cachedir=<root>/cache --update <root>/<repo>.
IndexerArgs(repo) ==
    <<S_createrepo,
      S_cachedir \o S_root \o S_sep \o S_cache,
      S_update,
      S_root \o S_sep \o repo>>

\* C17: a POST whose path has one or two plain names goes the same way
\* whatever the second name is: it never resolves a file path or opens a
\* file, the indexer it invokes gets the arguments of POST /<repo>, made of
\* the first name only, and its status is that of the indexer's outcome.
C17_PostIgnoresFileName ==
    \A r \in Req :
        IsPost(r) /\ parsed_req[r].some =>
            LET repo == PlainOf(request[r].uri)[1]
            IN /\ pc[r] \notin {"file_create", "copy"}
               /\ panicked_at[r] \notin {"file_create", "copy"}
               /\ r \in Invoked =>
                      /\ command[r] = IndexerArgs(repo)
                      /\ command[r] = Command([repo_name |-> repo, file_name |-> None])
               /\ pc[r] = "done" =>
                      status[r] = Some(IF child[r] = "exit0" THEN Ok
                                       ELSE InternalServerError)

\* C17 witness: POST /a/p.tar has run the indexer on <root>/a and was
\* answered with 200.
C17_Witness ==
    \E r \in Req :
        /\ IsPost(r)
        /\ parsed_req[r] = Some([repo_name |-> S_a,
                                 file_name |-> Some(<<"p", ".", "t", "a", "r">>)])
        /\ command[r] = IndexerArgs(S_a)
        /\ child[r] = "exit0" /\ status[r] = Some(Ok)

\* A step of the handler thread of a PUT.
PutStep(r) ==
    \/ ParseUnwrap(r)
    \/ DirExists(r)
    \/ \E io_ok \in BOOLEAN : DirCreate(r, io_ok)
    \/ \E io_ok \in BOOLEAN : PutFileCreate(r, io_ok)
    \/ \E io_ok \in BOOLEAN : PutCopy(r, io_ok)
    \/ PutReturn(r)

\* C18: a PUT never holds the refresh lock and never stands at the lock, the
\* spawn or the wait; and a PUT that was received and has not ended can take
\* its next step in every reachable state, whatever the other requests are
\* doing: while an indexer is in flight, while the lock is held or poisoned,
\* while another PUT writes.
C18_PutNeverTouchesRefreshLock ==
    \A r \in Req :
        IsPut(r) =>
            /\ refresh_lock.holder # r
            /\ pc[r] \notin {"lock", "spawn", "wait"}
            /\ panicked_at[r] \notin {"lock", "spawn", "wait"}
            /\ command[r] = <<>> /\ child[r] = "none"
            /\ ~Ended(r) => ENABLED PutStep(r)

\* C18 witness: a PUT has been answered with 200 and its file holds its body
\* while the indexer of a POST is in flight, the POST holding the lock.
C18_Witness ==
    \E r \in Req, q \in Req :
        /\ IsPut(r) /\ pc[r] = "done" /\ status[r] = Some(Ok)
        /\ files[Target(r)] = Body(r)
        /\ IsPost(q) /\ pc[q] = "wait" /\ child[q] = "running"
        /\ refresh_lock.holder = q

\* The PUT of r is one that is not accepted: its path does not parse, or its
\* file name is missing, has no extension or has another one than "rpm".
Refused(r) ==
    /\ IsPut(r)
    /\ LET res == parse_request(request[r].uri)
       IN IF res.ok THEN file_path(res.req).panic ELSE TRUE

\* C19 as stated: after a PUT that is not accepted, and with no other request
\* received, the filesystem below the root is as it was: no upload file and
\* no repository directory has been created.  Stated for the PUTs that no
\* directory failure ended.
C19_RefusedPutLeavesTreeUnchanged ==
    \A r \in Req :
        Refused(r) /\ Ended(r) /\ Alone(r) /\ ~FailedEnsure(r) =>
            /\ dirs = {}
            /\ files = (<<S_b>> :> <<>>)

\* C19 amended: no step of a PUT that is not accepted creates or changes a
\* file; a PUT whose path does not parse creates no directory either; a PUT
\* whose path parses but whose file name is missing or has no or another
\* extension creates <root>/<repo>/ and <root>/<repo>/rpms/ when they are
\* missing, in ensure_repo_exists, and nothing else.
C19_RefusedPutCreatesOnlyRepoDirs ==
    [][\A r \in Req :
          Refused(r) /\ pc'[r] # pc[r] =>
              /\ files' = files
              /\ pc'[r] \notin {"copy", "done"}
              /\ dirs' # dirs =>
                     /\ ValidPath(r)
                     /\ pc[r] \in {"repo_create", "rpms_create"}
                     /\ dirs' \ dirs \subseteq {repo_path(parsed_req[r].val),
                                                rpm_path(parsed_req[r].val)}]_vars

\* C19 witness: the only request received is a PUT of a file with another
\* extension than "rpm" to a repository that was not there; it has ended at
\* the extension check with no file written and with the two directories of
\* the repository created.
C19_Witness ==
    \E r \in Req :
        /\ Refused(r) /\ Alone(r) /\ BadExtension(r)
        /\ pc[r] = "panicked" /\ panicked_at[r] = "file_create"
        /\ dirs = {repo_path(parsed_req[r].val), rpm_path(parsed_req[r].val)}
        /\ files = (<<S_b>> :> <<>>)

\* C20: the repository directory of every request that parse_request accepted
\* is another path than <root>/cache: the repository argument of every
\* indexer invocation differs from the directory its --cachedir argument
\* names, and no upload goes below <root>/cache.
C20_RepoDirIsNotCacheDir ==
    \A r \in Req :
        /\ parsed_req[r].some =>
               S_cachedir \o PathStr(repo_path(parsed_req[r].val)) # cache_arg
        /\ r \in Invoked => S_cachedir \o command[r][4] # command[r][2]
        /\ Opened(r) => Target(r)[1] # S_cache

====
